---- MODULE Spec2Model ----
(***************************************************************************)
(* Model of tools/merge/cherry-pick.py: the interactive cherry-pick        *)
(* orchestrator (CherryPicker.run and the methods it calls) together with  *)
(* the git repository and the human at the terminal as its environment.    *)
(*                                                                         *)
(* The program is single-threaded.  One action is one stretch of code      *)
(* between two points where the program blocks on input() or ends.  The    *)
(* human changes the repository out of band only while a prompt is open.   *)
(***************************************************************************)
EXTENDS Integers, Sequences, FiniteSets, TLC

(* Longest commit list the model explores. *)
MaxCommits == 3

(***************************************************************************)
(* Repository state as the program observes it.                            *)
(***************************************************************************)

(* The operation names of the dictionary in is_git_operation_in_progress. *)
OperationKinds == {"cherry-pick", "rebase", "merge", "revert"}

NoOperation == ""

(* One line of `git status --porcelain`, reduced to its two status        *)
(* characters <<index, worktree>>.                                         *)
UnmergedLine == <<"U", "U">>

StagedLine == <<"M", " ">>

CleanTree == << >>

ConflictedTree == <<UnmergedLine>>

ResolvedTree == <<StagedLine>>

TreeStates == {CleanTree, ConflictedTree, ResolvedTree}

(* Keys a human can type at a prompt; "x" stands for every other input. *)
Choices == {"y", "n", "s", "q", "x"}

(* The commit lists a commits file can hold (hashes are numbered). *)
FileQueues == {[i \in 1..n |-> i] : n \in 0..MaxCommits}

(* A commit that no commits file lists. *)
ForeignCommit == MaxCommits + 1

(* The --start-from argument when none is given (None or the empty string). *)
NoStart == 0

(* The values --start-from can take: none, a listed hash, an unlisted one. *)
StartChoices == {NoStart} \cup (1..ForeignCommit)

VARIABLES
    valid_repo,        \* `git rev-parse --git-dir` succeeds
    dry_run,           \* CherryPicker.dry_run
    file_ok,           \* the commits file can be opened
    file_hashes,       \* the hashes the commits file lists, oldest first
    start_from,        \* the --start-from argument, NoStart when absent
    op,                \* operation whose marker file exists in the git dir
    tree,              \* lines of `git status --porcelain`
    cp_head,           \* commit named by CHERRY_PICK_HEAD: <<c>>, or << >>
    commits,           \* local `commits` of run()
    idx,               \* loop index i of run(), 1-based
    total_commits,     \* CherryPicker.total_commits
    successful_picks,  \* CherryPicker.successful_picks
    skipped_commits,   \* CherryPicker.skipped_commits
    failed_commits,    \* CherryPicker.failed_commits
    pc,                \* position of the program
    where,             \* call site of handle_ongoing_operation
    info,              \* what cherry_pick_commit printed about the commit
    choice,            \* last text read by input()
    calls,             \* mutations issued so far, oldest first
    outcomes,          \* branch that finished each processed commit
    summary,           \* what print_summary printed, or NoSummary
    exit_code,         \* process exit code, -1 while running
    stopped,           \* why the run ended
    \* Inputs and results of the helpers examined on their own; the run
    \* above abstracts them (op, tree, file_hashes) and leaves these alone.
    markers,           \* marker files present in the git directory
    changed,           \* the git directory changed since the last query
    answers,           \* results of is_git_operation_in_progress so far
    status_text,       \* stdout of `git status --porcelain`, line by line
    seen,              \* what has_conflicts and show_conflict_status found
    content,           \* the commits file, line by line
    parsed,            \* what parse_commits_file made of it
    offset,            \* the --start-from argument as a hash, for the parser
    remote_only,       \* commits handed to generate_output_file, newest first
    remote_url,        \* section phrase in diff-remote-tag's remote URL
    details            \* what git show tells of each of them, oldest first

vars == <<valid_repo, dry_run, file_ok, file_hashes, start_from,
          op, tree, cp_head,
          commits, idx,
          total_commits, successful_picks, skipped_commits, failed_commits,
          pc, where, info, choice, calls, outcomes, summary, exit_code,
          stopped,
          markers, changed, answers, status_text, seen, content, parsed,
          offset, remote_only, remote_url, details>>

(* What the commit list comes from. *)
source == <<offset, remote_only, remote_url, details>>

probe == <<markers, changed, answers, status_text, seen, content, parsed,
           source>>

config == <<valid_repo, dry_run, file_ok, file_hashes, start_from>>

ledger == <<total_commits, successful_picks, skipped_commits, failed_commits>>

repo == <<op, tree, cp_head>>

NoSummary == [printed |-> FALSE]

(* has_conflicts and show_conflict_status have not been called. *)
NotAsked == [asked |-> FALSE]

(* parse_commits_file has not been called. *)
NotParsed == [done |-> FALSE]

(* No --start-from argument, in the parser's terms. *)
NoOffset == [id |-> 0, run |-> 0]

(* No start offset and no list from diff-remote-tag. *)
SourceIdle ==
    /\ offset = NoOffset
    /\ remote_only = << >>
    /\ remote_url = ""
    /\ details = << >>

(* Nothing has been printed about the commit in hand. *)
NoInfo == ""

(***************************************************************************)
(* Pure helpers of CherryPicker.                                           *)
(***************************************************************************)

(* get_git_status: in dry-run mode run_git_command returns empty output. *)
GetGitStatus(dry, lines) == IF dry THEN << >> ELSE lines

(* The test of has_conflicts on one status line: at least two characters, *)
(* of which one is 'U' or which are 'AA' or 'DD'.                          *)
IsConflictLine(line) ==
    /\ Len(line) >= 2
    /\ \/ line[1] = "U"
       \/ line[2] = "U"
       \/ (line[1] = "A" /\ line[2] = "A")
       \/ (line[1] = "D" /\ line[2] = "D")

HasConflicts(lines) == \E i \in 1..Len(lines) : IsConflictLine(lines[i])

IsGitOperationInProgress_OnlyCherryPick(o) ==
    [in_progress |-> o = "cherry-pick", operation |-> o]

IsGitOperationInProgress(o) ==
    [in_progress |-> o # NoOperation, operation |-> o]

IsCherryPickReadyToContinue(o, lines) ==
    LET r == IsGitOperationInProgress(o)
    IN  IF ~r.in_progress \/ r.operation # "cherry-pick"
        THEN FALSE
        ELSE ~HasConflicts(lines)

(* Branch of cherry_pick_commit taken after `git cherry-pick <hash>`      *)
(* returned rc, with the repository then showing o and lines.             *)
ClassifyApply_NoFailedBranch(rc, o, lines) ==
    IF rc = 0 THEN "success"
    ELSE IF IsCherryPickReadyToContinue(o, lines) THEN "ready"
    ELSE "conflict"

ClassifyApply_FailedIsSuccess(rc, o, lines) ==
    IF rc = 0 THEN "success"
    ELSE IF IsCherryPickReadyToContinue(o, lines) THEN "ready"
    ELSE IF HasConflicts(lines) THEN "conflict"
    ELSE "success"

ClassifyApply(rc, o, lines) ==
    IF rc = 0 THEN "success"
    ELSE IF IsCherryPickReadyToContinue(o, lines) THEN "ready"
    ELSE IF HasConflicts(lines) THEN "conflict"
    ELSE "failed"

WaitForUserConfirmation_DefaultsToContinue(c) ==
    CASE c = "y" -> "continue"
      [] c = "n" -> "loop"
      [] c = "s" -> "skip"
      [] c = "q" -> "quit"
      [] OTHER   -> "continue"

(* Decision of the prompt loop of wait_for_user_confirmation. *)
WaitForUserConfirmation(c) ==
    CASE c = "y" -> "continue"
      [] c = "n" -> "loop"
      [] c = "s" -> "skip"
      [] c = "q" -> "quit"
      [] OTHER   -> "loop"

(* Decision of the prompt loop of handle_ongoing_operation. *)
HandleChoice_NoRecheck(c, conflicts) ==
    CASE c = "y" -> "proceed"
      [] c = "n" -> "loop"
      [] c = "q" -> "abandon"
      [] OTHER   -> "loop"

HandleChoice_InvertedCheck(c, conflicts) ==
    CASE c = "y" -> IF conflicts THEN "proceed" ELSE "loop"
      [] c = "n" -> "loop"
      [] c = "q" -> "abandon"
      [] OTHER   -> "loop"

HandleChoice(c, conflicts) ==
    CASE c = "y" -> IF ~conflicts THEN "proceed" ELSE "loop"
      [] c = "n" -> "loop"
      [] c = "q" -> "abandon"
      [] OTHER   -> "loop"

(* What cherry_pick_commit does with the action the mediator returned:    *)
(* the mutation it issues, the counter it increments, whether it exits.   *)
OnMediatorAction_ContinueIssued(action) ==
    CASE action = "continue" ->
            [mutation |-> "continue", counter |-> "successful", exits |-> FALSE]
      [] action = "skip" ->
            [mutation |-> "abort", counter |-> "skipped", exits |-> FALSE]
      [] action = "quit" ->
            [mutation |-> "none", counter |-> "none", exits |-> TRUE]

OnMediatorAction_SkipKeepsOperation(action) ==
    CASE action = "continue" ->
            [mutation |-> "none", counter |-> "successful", exits |-> FALSE]
      [] action = "skip" ->
            [mutation |-> "none", counter |-> "skipped", exits |-> FALSE]
      [] action = "quit" ->
            [mutation |-> "none", counter |-> "none", exits |-> TRUE]

OnMediatorAction_QuitAborts(action) ==
    CASE action = "continue" ->
            [mutation |-> "none", counter |-> "successful", exits |-> FALSE]
      [] action = "skip" ->
            [mutation |-> "abort", counter |-> "skipped", exits |-> FALSE]
      [] action = "quit" ->
            [mutation |-> "abort", counter |-> "none", exits |-> TRUE]

OnMediatorAction_SkipCountsFailed(action) ==
    CASE action = "continue" ->
            [mutation |-> "none", counter |-> "successful", exits |-> FALSE]
      [] action = "skip" ->
            [mutation |-> "abort", counter |-> "failed", exits |-> FALSE]
      [] action = "quit" ->
            [mutation |-> "none", counter |-> "none", exits |-> TRUE]

OnMediatorAction_SkipUncounted(action) ==
    CASE action = "continue" ->
            [mutation |-> "none", counter |-> "successful", exits |-> FALSE]
      [] action = "skip" ->
            [mutation |-> "abort", counter |-> "none", exits |-> FALSE]
      [] action = "quit" ->
            [mutation |-> "none", counter |-> "none", exits |-> TRUE]

OnMediatorAction(action) ==
    CASE action = "continue" ->
            [mutation |-> "none", counter |-> "successful", exits |-> FALSE]
      [] action = "skip" ->
            [mutation |-> "abort", counter |-> "skipped", exits |-> FALSE]
      [] action = "quit" ->
            [mutation |-> "none", counter |-> "none", exits |-> TRUE]

(* Whether run() reaches print_summary after handle_ongoing_operation     *)
(* returned False at the given call site: `return` at start-up, `break`   *)
(* inside the commit loop.                                                 *)
SummaryAfterAbandon_Never(site) == FALSE

SummaryAfterAbandon(site) == site = "loop"

PrintSummary_PartialFirst(total, ok, skipped, failed) ==
    [printed    |-> TRUE,
     total      |-> total,
     successful |-> ok,
     skipped    |-> skipped,
     failed     |-> failed,
     verdict    |-> IF ok > 0 THEN "partial"
                    ELSE IF ok = total THEN "all"
                    ELSE "none"]

(* print_summary: the counters and the closing classification. *)
PrintSummary(total, ok, skipped, failed) ==
    [printed    |-> TRUE,
     total      |-> total,
     successful |-> ok,
     skipped    |-> skipped,
     failed     |-> failed,
     verdict    |-> IF ok = total THEN "all"
                    ELSE IF ok > 0 THEN "partial"
                    ELSE "none"]

CommitInfo_Raises(shown) ==
    [text |-> IF shown THEN "shown" ELSE "unavailable", raises |-> ~shown]

(* The display of the commit before the apply: `git show` printed the     *)
(* one-line description, or failed and the CherryPickError was caught and *)
(* a placeholder printed.  Nothing is raised to the caller either way.    *)
CommitInfo(shown) ==
    [text |-> IF shown THEN "shown" ELSE "unavailable", raises |-> FALSE]

ParseCommitsFile_AcceptsEmpty(exists, hashes) ==
    IF ~exists
    THEN [error |-> TRUE, commits |-> << >>]
    ELSE [error |-> FALSE, commits |-> hashes]

(* parse_commits_file without a start offset: the listed hashes, or an    *)
(* error when the file is missing or lists no hash.                        *)
ParseCommitsFile(exists, hashes) ==
    IF ~exists \/ Len(hashes) = 0
    THEN [error |-> TRUE, commits |-> << >>]
    ELSE [error |-> FALSE, commits |-> hashes]

(* Index of the first occurrence of x in list, 0 when it does not occur   *)
(* (list.index raising ValueError).                                        *)
IndexOf(list, x) ==
    IF \E i \in 1..Len(list) : list[i] = x
    THEN CHOOSE i \in 1..Len(list) :
            /\ list[i] = x
            /\ \A j \in 1..(i - 1) : list[j] # x
    ELSE 0

StartFrom_IgnoresOffset(list, start) == list

(* The tail of parse_commits_file: with a start offset that occurs in the *)
(* list the list is cut to begin there; otherwise it is left whole.       *)
StartFrom(list, start) ==
    IF start = NoStart THEN list
    ELSE IF IndexOf(list, start) = 0 THEN list
    ELSE SubSeq(list, IndexOf(list, start), Len(list))

(***************************************************************************)
(* The git tool.  Each mutation returns a set of possible outcomes         *)
(* [rc, op, tree, tag]: the return code, the repository afterwards and a   *)
(* name for what happened.                                                 *)
(***************************************************************************)

(* git cherry-pick <hash>.  git refuses while files are unmerged or an    *)
(* operation is open; otherwise the pick applies, conflicts, stops on an  *)
(* empty change (operation open, nothing unmerged) or fails outright.     *)
GitCherryPick(o, lines) ==
    IF HasConflicts(lines) \/ o # NoOperation
    THEN {[rc |-> 1, op |-> o, tree |-> lines, tag |-> "refused"]}
    ELSE {[rc |-> 0, op |-> NoOperation, tree |-> CleanTree,
           tag |-> "applied"],
          [rc |-> 1, op |-> "cherry-pick", tree |-> ConflictedTree,
           tag |-> "conflict"],
          [rc |-> 1, op |-> "cherry-pick", tree |-> lines, tag |-> "empty"],
          [rc |-> 1, op |-> o, tree |-> lines, tag |-> "error"]}

(* git cherry-pick --continue. *)
GitContinue(o, lines) ==
    IF o = "cherry-pick" /\ ~HasConflicts(lines)
    THEN {[rc |-> 0, op |-> NoOperation, tree |-> CleanTree, tag |-> "ok"],
          [rc |-> 1, op |-> o, tree |-> lines, tag |-> "error"]}
    ELSE {[rc |-> 1, op |-> o, tree |-> lines, tag |-> "error"]}

(* git cherry-pick --abort. *)
GitAbort(o, lines) ==
    IF o = "cherry-pick"
    THEN {[rc |-> 0, op |-> NoOperation, tree |-> CleanTree, tag |-> "ok"],
          [rc |-> 1, op |-> o, tree |-> lines, tag |-> "error"]}
    ELSE {[rc |-> 1, op |-> o, tree |-> lines, tag |-> "error"]}

(***************************************************************************)
(* Initial states: the process has just started in some repository.        *)
(***************************************************************************)

Init ==
    /\ valid_repo \in BOOLEAN
    /\ dry_run \in BOOLEAN
    /\ file_ok \in BOOLEAN
    /\ file_hashes \in FileQueues
    /\ file_ok = FALSE => file_hashes = << >>
    /\ start_from \in StartChoices
    /\ op \in OperationKinds \cup {NoOperation}
    /\ tree \in TreeStates
    /\ cp_head \in IF op = "cherry-pick" THEN {<<ForeignCommit>>, <<1>>}
                                         ELSE {<< >>}
    /\ commits = << >>
    /\ idx = 0
    /\ total_commits = 0
    /\ successful_picks = 0
    /\ skipped_commits = 0
    /\ failed_commits = 0
    /\ pc = "main"
    /\ where = "startup"
    /\ info = NoInfo
    /\ choice = ""
    /\ calls = << >>
    /\ outcomes = << >>
    /\ summary = NoSummary
    /\ exit_code = -1
    /\ stopped = "running"
    /\ markers = {}
    /\ changed = FALSE
    /\ answers = << >>
    /\ status_text = << >>
    /\ seen = NotAsked
    /\ content = << >>
    /\ parsed = NotParsed
    /\ SourceIdle

(***************************************************************************)
(* Fragments shared by the actions.                                        *)
(***************************************************************************)

(* One entry of the call trace. *)
Call(kind, result) ==
    [kind |-> kind, at |-> idx, commit |-> commits[idx], result |-> result]

(* CHERRY_PICK_HEAD after a mutation on commit c left operation o open:   *)
(* git writes it when it opens a cherry-pick and removes it at the end.   *)
HeadAfter(o, c) ==
    IF o # "cherry-pick" THEN << >>
    ELSE IF op = "cherry-pick" THEN cp_head
    ELSE <<c>>

Record_CountsTwice(counter, label) ==
    /\ outcomes' = IF counter = "none" THEN outcomes
                                        ELSE Append(outcomes, label)
    /\ successful_picks' =
            successful_picks + (IF counter = "successful" THEN 2 ELSE 0)
    /\ skipped_commits' =
            skipped_commits + (IF counter = "skipped" THEN 1 ELSE 0)
    /\ failed_commits' =
            failed_commits + (IF counter = "failed" THEN 1 ELSE 0)
    /\ UNCHANGED total_commits

(* self.<counter> += 1 for the named counter; "none" leaves all three and *)
(* notes no outcome.  label names the branch that made the increment.     *)
Record(counter, label) ==
    /\ outcomes' = IF counter = "none" THEN outcomes
                                        ELSE Append(outcomes, label)
    /\ successful_picks' =
            successful_picks + (IF counter = "successful" THEN 1 ELSE 0)
    /\ skipped_commits' =
            skipped_commits + (IF counter = "skipped" THEN 1 ELSE 0)
    /\ failed_commits' =
            failed_commits + (IF counter = "failed" THEN 1 ELSE 0)
    /\ UNCHANGED total_commits

(* A CherryPickError raised by a failing `git status` leaves run() and is  *)
(* caught by main's `except Exception`, which exits with code 1.           *)
Crash ==
    /\ pc' = "exit"
    /\ exit_code' = 1
    /\ stopped' = "error"
    /\ UNCHANGED summary

Advance_SkipsOne ==
    /\ idx' = idx + 2
    /\ pc' = "loop"
    /\ UNCHANGED <<summary, exit_code, stopped>>

(* cherry_pick_commit returned: the for loop of run() takes the next one. *)
Advance ==
    /\ idx' = idx + 1
    /\ pc' = "loop"
    /\ UNCHANGED <<summary, exit_code, stopped>>

(* Entry of handle_ongoing_operation up to its first input(): it reads    *)
(* the status (has_conflicts, show_conflict_status) and changes nothing.  *)
EnterHandler(site, ok) ==
    IF ok \/ dry_run
    THEN /\ pc' = "handler"
         /\ where' = site
         /\ UNCHANGED <<summary, exit_code, stopped>>
    ELSE /\ Crash
         /\ UNCHANGED where

(***************************************************************************)
(* Actions of the program.                                                 *)
(***************************************************************************)

(* main() up to the first blocking point of run(): the repository check   *)
(* and the start-up check for an operation in progress.                    *)
Main ==
    /\ pc = "main"
    /\ IF ~valid_repo
       THEN /\ pc' = "exit"
            /\ exit_code' = 1
            /\ stopped' = "fatal"
            /\ UNCHANGED <<where, summary>>
       ELSE IF IsGitOperationInProgress(op).in_progress
            THEN \E ok \in BOOLEAN : EnterHandler("startup", ok)
            ELSE /\ pc' = "parse"
                 /\ UNCHANGED <<where, summary, exit_code, stopped>>
    /\ UNCHANGED <<probe, config,
                   info, repo, commits, idx, ledger, choice, calls,
                   outcomes>>

(* run(): parse the commits file, apply the start offset and set          *)
(* total_commits.                                                          *)
Parse ==
    /\ pc = "parse"
    /\ LET p == ParseCommitsFile(file_ok, file_hashes)
       IN  IF p.error
           THEN /\ pc' = "exit"
                /\ exit_code' = 1
                /\ stopped' = "fatal"
                /\ UNCHANGED <<commits, idx, total_commits>>
           ELSE /\ commits' = StartFrom(p.commits, start_from)
                /\ total_commits' = Len(StartFrom(p.commits, start_from))
                /\ idx' = 1
                /\ pc' = "loop"
                /\ UNCHANGED <<exit_code, stopped>>
    /\ UNCHANGED <<probe, config, info, repo, successful_picks, skipped_commits,
                   failed_commits, where, choice, calls, outcomes, summary>>

(* Head of the for loop of run(): the list is exhausted and the summary   *)
(* is printed, or the operation check before the next commit is made.     *)
Loop ==
    /\ pc = "loop"
    /\ IF idx > Len(commits)
       THEN /\ summary' = PrintSummary(total_commits, successful_picks,
                                       skipped_commits, failed_commits)
            /\ pc' = "exit"
            /\ exit_code' = 0
            /\ stopped' = "completed"
            /\ UNCHANGED where
       ELSE IF IsGitOperationInProgress(op).in_progress
            THEN \E ok \in BOOLEAN : EnterHandler("loop", ok)
            ELSE /\ pc' = "pick"
                 /\ UNCHANGED <<where, summary, exit_code, stopped>>
    /\ info' = NoInfo
    /\ UNCHANGED <<probe, config,
                   repo, commits, idx, ledger, choice, calls, outcomes>>

(* One input() of handle_ongoing_operation and what follows it up to the  *)
(* next blocking point.                                                    *)
HandlerInput(c) ==
    /\ pc = "handler"
    /\ choice' = c
    /\ \E ok \in BOOLEAN :
         LET lines == GetGitStatus(dry_run, tree)
             d     == HandleChoice(c, HasConflicts(lines))
         IN  IF c = "y" /\ ~ok /\ ~dry_run
             THEN Crash
             ELSE /\ (c = "y" \/ ok)
                  /\ CASE d = "loop" ->
                            UNCHANGED <<pc, summary, exit_code, stopped>>
                       [] d = "proceed" ->
                            /\ pc' = IF where = "startup" THEN "parse"
                                                           ELSE "pick"
                            /\ UNCHANGED <<summary, exit_code, stopped>>
                       [] d = "abandon" ->
                            /\ summary' =
                                 IF SummaryAfterAbandon(where)
                                 THEN PrintSummary(total_commits,
                                        successful_picks, skipped_commits,
                                        failed_commits)
                                 ELSE summary
                            /\ pc' = "exit"
                            /\ exit_code' = 0
                            /\ stopped' = "abandon"
    /\ UNCHANGED <<probe, config,
                   info, repo, commits, idx, ledger, where, calls,
                   outcomes>>

DryRunPick_StillApplies ==
    \E r \in GitCherryPick(op, tree) :
       /\ Record("successful", "dry-run")
       /\ Advance
       /\ op' = r.op
       /\ cp_head' = HeadAfter(r.op, commits[idx])
       /\ tree' = r.tree
       /\ calls' = Append(calls, Call("apply", r.tag))
       /\ UNCHANGED info

(* The dry-run branch of cherry_pick_commit: the commit is announced and  *)
(* counted as successful, no git command is run.                           *)
DryRunPick ==
    /\ Record("successful", "dry-run")
    /\ Advance
    /\ UNCHANGED <<repo, calls, info>>

(* cherry_pick_commit(commits[idx]) up to its return or to the first      *)
(* input() of wait_for_user_confirmation.                                  *)
CherryPickCommit ==
    /\ pc = "pick"
    /\ IF dry_run
       THEN DryRunPick
       ELSE \E shown \in BOOLEAN, r \in GitCherryPick(op, tree),
               ok \in BOOLEAN :
              LET applied == Append(calls, Call("apply", r.tag))
                  branch  == ClassifyApply(r.rc, r.op, r.tree)
              IN
              /\ info' = CommitInfo(shown).text
              /\
                  IF CommitInfo(shown).raises
                  THEN /\ Crash
                       /\ UNCHANGED <<repo, idx, ledger, calls, outcomes>>
                  ELSE
                  IF branch # "success" /\ ~ok
                  THEN /\ Crash
                       /\ op' = r.op
                       /\ cp_head' = HeadAfter(r.op, commits[idx])
                       /\ tree' = r.tree
                       /\ calls' = applied
                       /\ UNCHANGED <<idx, ledger, outcomes>>
                  ELSE /\ ok
                       /\ CASE branch = "success" ->
                                 /\ Record("successful", "succeeded")
                                 /\ Advance
                                 /\ op' = r.op
                                 /\ cp_head' = HeadAfter(r.op, commits[idx])
                                 /\ tree' = r.tree
                                 /\ calls' = applied
                            [] branch = "ready" ->
                                 \E k \in GitContinue(r.op, r.tree) :
                                    /\ IF k.rc = 0
                                       THEN Record("successful", "resumed")
                                       ELSE Record("failed",
                                                   "continue-failed")
                                    /\ Advance
                                    /\ op' = k.op
                                    /\ cp_head' = IF k.op = "cherry-pick"
                                                   THEN HeadAfter(r.op, commits[idx])
                                                   ELSE << >>
                                    /\ tree' = k.tree
                                    /\ calls' = Append(applied,
                                            Call("continue", k.tag))
                            [] branch = "conflict" ->
                                 /\ pc' = "mediator"
                                 /\ op' = r.op
                                 /\ cp_head' = HeadAfter(r.op, commits[idx])
                                 /\ tree' = r.tree
                                 /\ calls' = applied
                                 /\ UNCHANGED <<idx, ledger, outcomes,
                                                summary, exit_code, stopped>>
                            [] branch = "failed" ->
                                 /\ Record("failed", "failed")
                                 /\ Advance
                                 /\ op' = r.op
                                 /\ cp_head' = HeadAfter(r.op, commits[idx])
                                 /\ tree' = r.tree
                                 /\ calls' = applied
    /\ UNCHANGED <<probe, config, commits, where, choice>>

(* One input() of wait_for_user_confirmation and, when it returns, the    *)
(* rest of cherry_pick_commit.                                             *)
MediatorInput(c) ==
    /\ pc = "mediator"
    /\ choice' = c
    /\ LET action == WaitForUserConfirmation(c)
       IN  IF action = "loop"
           THEN UNCHANGED <<repo, idx, ledger, pc, calls, outcomes,
                            summary, exit_code, stopped>>
           ELSE LET e == OnMediatorAction(action)
                IN  /\ Record(e.counter, action)
                    /\ CASE e.mutation = "none" ->
                              UNCHANGED <<repo, calls>>
                         [] e.mutation = "abort" ->
                              \E r \in GitAbort(op, tree) :
                                 /\ op' = r.op
                                 /\ cp_head' = HeadAfter(r.op, commits[idx])
                                 /\ tree' = r.tree
                                 /\ calls' = Append(calls,
                                                    Call("abort", r.tag))
                         [] e.mutation = "continue" ->
                              \E r \in GitContinue(op, tree) :
                                 /\ op' = r.op
                                 /\ cp_head' = HeadAfter(r.op, commits[idx])
                                 /\ tree' = r.tree
                                 /\ calls' = Append(calls,
                                                    Call("continue", r.tag))
                    /\ IF e.exits
                       THEN /\ pc' = "exit"
                            /\ exit_code' = 0
                            /\ stopped' = "quit"
                            /\ UNCHANGED <<idx, summary>>
                       ELSE Advance
    /\ UNCHANGED <<probe, config, info, commits, where>>

Interrupt_ExitsZero ==
    /\ pc \in {"handler", "mediator"}
    /\ pc' = "exit"
    /\ exit_code' = 0
    /\ stopped' = "interrupt"
    /\ UNCHANGED <<probe, config,
                   info, repo, commits, idx, ledger, where, choice,
                   calls, outcomes, summary>>

(* Ctrl-C while input() blocks: main catches KeyboardInterrupt. *)
Interrupt ==
    /\ pc \in {"handler", "mediator"}
    /\ pc' = "exit"
    /\ exit_code' = 1
    /\ stopped' = "interrupt"
    /\ UNCHANGED <<probe, config,
                   info, repo, commits, idx, ledger, where, choice,
                   calls, outcomes, summary>>

(***************************************************************************)
(* The human at the terminal, working in the repository while a prompt     *)
(* is open.                                                                *)
(***************************************************************************)

AtPrompt == pc \in {"handler", "mediator"}

(* Edit and `git add` the unmerged files. *)
HumanResolves ==
    /\ AtPrompt
    /\ HasConflicts(tree)
    /\ tree' = ResolvedTree
    /\ UNCHANGED <<probe, config,
                   info, op, cp_head, commits, idx, ledger, pc, where,
                   choice, calls, outcomes, summary, exit_code, stopped>>

(* Finish the open operation: git cherry-pick --continue, git commit, ... *)
HumanCompletes ==
    /\ AtPrompt
    /\ op # NoOperation
    /\ ~HasConflicts(tree)
    /\ op' = NoOperation
    /\ cp_head' = << >>
    /\ tree' = CleanTree
    /\ UNCHANGED <<probe, config, info, commits, idx, ledger, pc, where, choice,
                   calls, outcomes, summary, exit_code, stopped>>

(* Give the open operation up: git cherry-pick --abort, git merge --abort. *)
HumanAborts ==
    /\ AtPrompt
    /\ op # NoOperation
    /\ op' = NoOperation
    /\ cp_head' = << >>
    /\ tree' = CleanTree
    /\ UNCHANGED <<probe, config, info, commits, idx, ledger, pc, where, choice,
                   calls, outcomes, summary, exit_code, stopped>>

Next ==
    \/ Main
    \/ Parse
    \/ Loop
    \/ \E c \in Choices : HandlerInput(c)
    \/ CherryPickCommit
    \/ \E c \in Choices : MediatorInput(c)
    \/ Interrupt
    \/ HumanResolves
    \/ HumanCompletes
    \/ HumanAborts

Spec == Init /\ [][Next]_vars

(* The variables keep their shapes. *)
TypeOK ==
    /\ valid_repo \in BOOLEAN
    /\ dry_run \in BOOLEAN
    /\ op \in OperationKinds \cup {NoOperation}
    /\ tree \in TreeStates
    /\ idx \in 0..(MaxCommits + 1)
    /\ pc \in {"main", "parse", "loop", "handler", "pick", "mediator", "exit"}
    /\ where \in {"startup", "loop"}
    /\ info \in {NoInfo, "shown", "unavailable"}
    /\ start_from \in StartChoices
    /\ exit_code \in {-1, 0, 1}
    /\ stopped \in {"running", "fatal", "error", "interrupt", "abandon",
                    "quit", "completed"}

(***************************************************************************)
(* Vocabulary of the properties.                                           *)
(***************************************************************************)

LastCall == calls[Len(calls)]

(* This step issues `git cherry-pick <hash>` (as its first mutation). *)
IsApplyStep ==
    /\ Len(calls') > Len(calls)
    /\ calls'[Len(calls) + 1].kind = "apply"

(* This step issues `git cherry-pick <hash>` and no other mutation. *)
IsApplyOnlyStep ==
    /\ IsApplyStep
    /\ Len(calls') = Len(calls) + 1

(* This step is the program reading c at the open prompt and acting on    *)
(* it: not Ctrl-C, not a failing status query, not the human working in   *)
(* the repository.                                                         *)
InputStep(at, c) ==
    /\ pc = at
    /\ choice' = c
    /\ stopped' \notin {"interrupt", "error"}
    /\ ~(pc' = pc /\ repo' # repo)

Recorded == successful_picks + skipped_commits + failed_commits

CountersNow ==
    PrintSummary(total_commits, successful_picks, skipped_commits,
                 failed_commits)

(***************************************************************************)
(* C1.  Original statement: the apply mutation is issued only when the     *)
(* repository has no unmerged files and no operation is open.              *)
(***************************************************************************)
C1_ApplyOnlyWhenCleanAndIdle ==
    [][IsApplyStep => (op = NoOperation /\ ~HasConflicts(tree))]_vars

(* C1 as amended: the apply mutation is never issued while an operation   *)
(* is open together with unmerged files; when an operation is open at the *)
(* apply (the recovery handler returned 'proceed'), no file is unmerged.  *)
C1_ApplyNeverOnOpenConflict ==
    [][IsApplyStep => (op = NoOperation \/ ~HasConflicts(tree))]_vars

(* An apply was issued after 'proceed' while an operation was still open. *)
C1_Witness ==
    /\ pc = "loop"
    /\ calls # << >>
    /\ LastCall.kind = "apply"
    /\ LastCall.result = "refused"
    /\ op \in OperationKinds
    /\ choice = "y"

(***************************************************************************)
(* C2.  succeeded + skipped + failed <= total in every state, and the sum  *)
(* equals total when the commit loop has run to its end.                   *)
(***************************************************************************)
C2_LedgerBound ==
    /\ Recorded <= total_commits
    /\ stopped = "completed" => Recorded = total_commits

(* A completed run that recorded all three kinds of outcome. *)
C2_Witness ==
    /\ stopped = "completed"
    /\ successful_picks > 0
    /\ skipped_commits > 0
    /\ failed_commits > 0

(***************************************************************************)
(* C3.  The mediator's 'continue' is accepted, and the commit recorded as  *)
(* succeeded, only in a state where has_conflicts() is false.              *)
(***************************************************************************)
C3_ContinueOnlyWhenResolved ==
    [][(InputStep("mediator", "y") /\ pc' # "mediator")
          => ~HasConflicts(GetGitStatus(dry_run, tree))]_vars

(***************************************************************************)
(* C4.  Original statement: on 'continue' with the conflicts cleared the   *)
(* orchestrator issues the continue mutation itself and records Succeeded  *)
(* or Failed by its result.                                                *)
(***************************************************************************)
C4_ContinueIssuedByOrchestrator ==
    [][(InputStep("mediator", "y") /\ ~HasConflicts(tree))
          => /\ Len(calls') = Len(calls) + 1
             /\ calls'[Len(calls')].kind = "continue"
             /\ (calls'[Len(calls')].result = "ok"
                    => successful_picks' = successful_picks + 1)
             /\ (calls'[Len(calls')].result # "ok"
                    => failed_commits' = failed_commits + 1)]_vars

(* C4 as amended: on 'continue' the orchestrator issues no mutation (the  *)
(* human is told to run git cherry-pick --continue); it records the       *)
(* commit as succeeded, never as failed, leaves the repository as it is   *)
(* and goes on to the next commit without prompting again.                *)
C4_ContinueTrustsHuman ==
    [][InputStep("mediator", "y")
          => /\ calls' = calls
             /\ repo' = repo
             /\ successful_picks' = successful_picks + 1
             /\ failed_commits' = failed_commits
             /\ skipped_commits' = skipped_commits
             /\ outcomes' = Append(outcomes, "continue")
             /\ idx' = idx + 1
             /\ pc' = "loop"]_vars

(* 'continue' was chosen with the conflicts cleared and the cherry-pick   *)
(* still open: the commit counts as succeeded, no continue was issued.    *)
C4_Witness ==
    /\ pc = "loop"
    /\ idx = 2
    /\ successful_picks = 1
    /\ outcomes = <<"continue">>
    /\ Len(calls) = 1
    /\ LastCall.result = "conflict"
    /\ op = "cherry-pick"
    /\ tree = ResolvedTree

(***************************************************************************)
(* C5.  Original statement: after an apply that ended in a conflict, no    *)
(* apply follows in the call trace before a continue or an abort.          *)
(***************************************************************************)
C5_NoApplyBeforeContinueOrAbort ==
    \A i \in 1..(Len(calls) - 1) :
        (calls[i].kind = "apply" /\ calls[i].result = "conflict")
            => calls[i + 1].kind # "apply"

(* C5 as amended: after an apply that ended in a conflict the next apply  *)
(* is issued only after the human's decision in the mediator: after       *)
(* 'skip' the abort of that commit stands between the two applies, and    *)
(* two applies are adjacent only when the human chose 'continue'.         *)
C5_NoApplyBeforeDecision ==
    \A i \in 1..Len(calls) :
        (calls[i].kind = "apply" /\ calls[i].result = "conflict")
            => /\ i < Len(calls) =>
                    /\ Len(outcomes) >= calls[i].at
                    /\ outcomes[calls[i].at] \in {"continue", "skip"}
               /\ (Len(outcomes) >= calls[i].at
                        /\ outcomes[calls[i].at] = "skip")
                    => /\ i < Len(calls)
                       /\ calls[i + 1].kind = "abort"
                       /\ calls[i + 1].at = calls[i].at
               /\ (i < Len(calls) /\ calls[i + 1].kind = "apply")
                    => outcomes[calls[i].at] = "continue"

(* A conflicting apply directly followed by the next commit's apply. *)
C5_Witness ==
    /\ Len(calls) >= 2
    /\ calls[1].kind = "apply"
    /\ calls[1].result = "conflict"
    /\ calls[2].kind = "apply"
    /\ calls[2].at = 2

(***************************************************************************)
(* C6.  On 'skip' the abort mutation is issued exactly once for the        *)
(* commit, skipped_commits grows by one and no other counter changes, and  *)
(* the loop goes on to the next commit: what follows the abort in the      *)
(* call trace is the apply of the next commit, and the recovery handler    *)
(* comes in between only when the abort itself failed.                     *)
(***************************************************************************)
C6_SkipAbortsOnceAndAdvances ==
    /\ [][InputStep("mediator", "s")
            => /\ calls' = Append(calls, calls'[Len(calls')])
               /\ calls'[Len(calls')].kind = "abort"
               /\ calls'[Len(calls')].at = idx
               /\ skipped_commits' = skipped_commits + 1
               /\ successful_picks' = successful_picks
               /\ failed_commits' = failed_commits
               /\ total_commits' = total_commits
               /\ outcomes' = Append(outcomes, "skip")
               /\ idx' = idx + 1
               /\ pc' = "loop"]_vars
    /\ [](\A i \in 1..Len(calls) :
            calls[i].kind = "abort"
               => /\ i > 1
                  /\ calls[i - 1].kind = "apply"
                  /\ calls[i - 1].at = calls[i].at
                  /\ outcomes[calls[i].at] = "skip"
                  /\ i < Len(calls)
                        => /\ calls[i + 1].kind = "apply"
                           /\ calls[i + 1].at = calls[i].at + 1)
    /\ []((pc = "handler" /\ calls # << >> /\ LastCall.kind = "abort")
            => LastCall.result = "error")

(* A skipped commit: its abort, then the apply of the next commit. *)
C6_Witness ==
    /\ Len(calls) >= 3
    /\ calls[2].kind = "abort"
    /\ calls[2].result = "ok"
    /\ calls[3].kind = "apply"
    /\ calls[3].at = 2
    /\ skipped_commits = 1
    /\ outcomes[1] = "skip"

(***************************************************************************)
(* C7.  The step that reads 'q' at either prompt issues no mutation and    *)
(* leaves the repository as it is, and no mutation is issued after it.     *)
(***************************************************************************)
C7_QuitIssuesNothing ==
    /\ [][(InputStep("mediator", "q") \/ InputStep("handler", "q"))
            => /\ calls' = calls
               /\ repo' = repo
               /\ pc' = "exit"]_vars
    /\ [][(stopped = "quit" \/ stopped = "abandon")
            => (calls' = calls /\ repo' = repo)]_vars

(* Quit in the mediator with the conflicted cherry-pick left open. *)
C7_Witness ==
    /\ stopped = "quit"
    /\ pc = "exit"
    /\ op = "cherry-pick"
    /\ HasConflicts(tree)
    /\ LastCall.kind = "apply"

(***************************************************************************)
(* C8.  After 'quit' in the mediator the final summary has been printed    *)
(* and shows the counters recorded so far.                                 *)
(***************************************************************************)
C8_QuitPrintsSummary ==
    stopped = "quit" => summary = CountersNow

(***************************************************************************)
(* C9.  Original statement: after 'abandon' in the recovery handler, at    *)
(* start-up or before a queued commit, the recorded outcomes are printed   *)
(* in the final summary.                                                   *)
(***************************************************************************)
C9_AbandonPrintsSummary ==
    stopped = "abandon" => summary = CountersNow

(* C9 as amended: the 'abandon' step issues no mutation and records       *)
(* nothing; when the handler was entered before a queued commit the       *)
(* summary is printed with the counters recorded so far; when it was      *)
(* entered at start-up nothing has been applied or recorded and run()     *)
(* returns without printing a summary.                                    *)
C9_AbandonStopsRun ==
    /\ [][InputStep("handler", "q")
            => /\ calls' = calls
               /\ ledger' = ledger
               /\ outcomes' = outcomes
               /\ pc' = "exit"
               /\ stopped' = "abandon"]_vars
    /\ []((stopped = "abandon" /\ where = "loop") => summary = CountersNow)
    /\ []((stopped = "abandon" /\ where = "startup")
            => /\ summary = NoSummary
               /\ calls = << >>
               /\ outcomes = << >>
               /\ Recorded = 0)

(* Abandon before the second commit, the first one being in the summary. *)
C9_Witness ==
    /\ stopped = "abandon"
    /\ where = "loop"
    /\ Len(outcomes) > 0
    /\ summary = CountersNow
    /\ summary.total > Recorded

(***************************************************************************)
(* C10.  When the apply fails and the repository then shows neither        *)
(* unmerged files nor an open cherry-pick, failed_commits grows by one,    *)
(* no other counter changes, no prompt is shown and the loop goes on to    *)
(* the next commit.                                                        *)
(***************************************************************************)
C10_BadCommitIsIsolated ==
    [][(/\ IsApplyOnlyStep
        /\ calls'[Len(calls')].result # "applied"
        /\ ~HasConflicts(tree')
        /\ op' # "cherry-pick"
        /\ stopped' # "error")
          => /\ failed_commits' = failed_commits + 1
             /\ successful_picks' = successful_picks
             /\ skipped_commits' = skipped_commits
             /\ total_commits' = total_commits
             /\ outcomes' = Append(outcomes, "failed")
             /\ choice' = choice
             /\ idx' = idx + 1
             /\ pc' = "loop"
             /\ exit_code' = -1]_vars

(* A commit that failed outright, and the next commit applied after it. *)
C10_Witness ==
    /\ Len(calls) = 2
    /\ calls[1].kind = "apply"
    /\ calls[1].result = "error"
    /\ calls[2].kind = "apply"
    /\ calls[2].at = 2
    /\ calls[2].result = "applied"
    /\ failed_commits = 1
    /\ successful_picks = 1
    /\ choice = ""

(* This step takes the "ready to continue" branch of cherry_pick_commit:  *)
(* it issues the apply and then git cherry-pick --continue.                *)
IsResumeStep ==
    /\ Len(calls') = Len(calls) + 2
    /\ calls'[Len(calls) + 1].kind = "apply"
    /\ calls'[Len(calls) + 2].kind = "continue"

(***************************************************************************)
(* C11.  When the automatic continue fails, the commit is recorded Failed  *)
(* and the orchestrator aborts the open operation, so that it is closed    *)
(* before the next commit is applied.                                      *)
(***************************************************************************)
C11_FailedContinueAborts ==
    [][(IsResumeStep /\ calls'[Len(calls')].result = "error")
          => /\ failed_commits' = failed_commits + 1
             /\ op' = NoOperation]_vars

(***************************************************************************)
(* C12.  The automatic continue is taken only when the open cherry-pick    *)
(* is the one of the commit just attempted: a cherry-pick that was already *)
(* open for another commit never makes the attempted commit succeed.       *)
(***************************************************************************)
C12_ResumeOnlyOwnPick ==
    [][(IsResumeStep /\ op = "cherry-pick")
          => cp_head = <<commits[idx]>>]_vars

(***************************************************************************)
(* C13.  A failure while one commit is processed ends that commit only:    *)
(* cherry_pick_commit always comes back to the loop or to the mediator     *)
(* prompt, and the process does not end on a raw tool error.               *)
(***************************************************************************)
C13_FailureIsPerCommit ==
    [][pc = "pick" => (pc' \in {"loop", "mediator"} /\ exit_code' = -1)]_vars

(***************************************************************************)
(* C14.  Original statement: the exit code is non-zero exactly for the     *)
(* runs ended by a fatal precondition; every other run, also one ended by  *)
(* an interrupt, exits with 0.                                             *)
(***************************************************************************)
C14_NonZeroOnlyWhenFatal ==
    pc = "exit" => (exit_code # 0 <=> stopped = "fatal")

(* C14 as amended: the exit code is 0 for the runs that end by reaching   *)
(* the end of the loop, by abandon or by quit, whatever failed per        *)
(* commit; it is 1 for the fatal preconditions and also for a run ended   *)
(* by an interrupt or by an unexpected error.                              *)
C14_ExitCodes ==
    /\ pc = "exit" <=> exit_code # -1
    /\ pc = "exit" <=> stopped # "running"
    /\ stopped \in {"completed", "abandon", "quit"} => exit_code = 0
    /\ stopped \in {"fatal", "interrupt", "error"} => exit_code = 1

(* A run with a failed commit behind it, ended by Ctrl-C at a prompt. *)
C14_Witness ==
    /\ stopped = "interrupt"
    /\ exit_code = 1
    /\ failed_commits > 0

(***************************************************************************)
(* C15.  A run that meets a fatal precondition (not a repository, commits  *)
(* file missing or without a hash) exits non-zero with no mutation issued  *)
(* and no summary printed; with such a precondition no run reaches the     *)
(* commit loop.                                                            *)
(***************************************************************************)
C15_FatalBeforeAnyMutation ==
    /\ stopped = "fatal"
          => /\ exit_code = 1
             /\ calls = << >>
             /\ outcomes = << >>
             /\ summary = NoSummary
    /\ (pc = "exit" /\ ~valid_repo) => stopped = "fatal"
    /\ (pc = "exit" /\ valid_repo /\ (~file_ok \/ file_hashes = << >>))
          => /\ stopped \in {"fatal", "abandon", "interrupt", "error"}
             /\ calls = << >>
             /\ summary = NoSummary

(* The commits file lists no hash; the run got past the start-up prompt. *)
C15_Witness ==
    /\ stopped = "fatal"
    /\ valid_repo
    /\ file_ok
    /\ choice = "y"

C17_HandlerBeforeApply ==
    /\ [][IsApplyStep => pc = "pick"]_vars
    /\ [][(pc' = "pick" /\ pc # "pick")
            => \/ pc = "loop" /\ op = NoOperation
               \/ InputStep("handler", "y") /\ where = "loop"]_vars
    /\ [][(pc = "main" /\ valid_repo /\ op # NoOperation)
            => pc' \in {"handler", "exit"}]_vars
    /\ [][(pc = "loop" /\ idx <= Len(commits) /\ op # NoOperation)
            => pc' \in {"handler", "exit"}]_vars
    /\ [][pc = "handler" => calls' = calls]_vars

(* The handler ran before the second commit and let the run proceed with  *)
(* the operation still open.                                               *)
C17_Witness ==
    /\ pc = "pick"
    /\ idx = 2
    /\ where = "loop"
    /\ choice = "y"
    /\ op \in OperationKinds

(***************************************************************************)
(* C18.  At both prompts 'n' and every input outside the choice set        *)
(* decide nothing: no mutation, no counter change, the same prompt again.  *)
(***************************************************************************)
C18_NoDecisionChangesNothing ==
    [][(\/ InputStep("mediator", "n")
        \/ InputStep("mediator", "x")
        \/ InputStep("handler", "n")
        \/ InputStep("handler", "x")
        \/ InputStep("handler", "s"))
          => /\ pc' = pc
             /\ UNCHANGED <<probe, config,
                            info, repo, commits, idx, ledger, where, calls,
                            outcomes, summary, exit_code, stopped>>]_vars

(* An input outside y/n/s/q was read at the mediator's prompt, which is   *)
(* still open.                                                             *)
C18_Witness ==
    /\ pc = "mediator"
    /\ choice = "x"

(* The apply calls of the trace, in the order they were issued. *)
ApplyCalls == SelectSeq(calls, LAMBDA x : x.kind = "apply")

(***************************************************************************)
(* C19.  Commits are processed one at a time: whenever the loop moves to   *)
(* the next commit exactly one counter has grown by one, every apply is    *)
(* issued for the commit at the loop index with all earlier commits        *)
(* recorded, and no counter ever decreases.                                *)
(***************************************************************************)
C19_OneOutcomePerCommit ==
    /\ [](Len(outcomes) = Recorded)
    /\ []((pc \in {"loop", "pick", "mediator"}
                \/ (pc = "handler" /\ where = "loop"))
            => Recorded = idx - 1)
    /\ [][IsApplyStep
            => /\ calls'[Len(calls) + 1].at = idx
               /\ Recorded = idx - 1]_vars
    /\ [][(idx' # idx /\ idx > 0)
            => /\ idx' = idx + 1
               /\ Recorded' = Recorded + 1]_vars
    /\ [][/\ successful_picks' >= successful_picks
          /\ skipped_commits' >= skipped_commits
          /\ failed_commits' >= failed_commits]_vars
    /\ [](\A i \in 1..Len(ApplyCalls) : ApplyCalls[i].at = i)

(* The third commit is about to be applied; the first two are recorded,   *)
(* one as succeeded and one as failed.                                     *)
C19_Witness ==
    /\ pc = "pick"
    /\ idx = 3
    /\ successful_picks = 1
    /\ failed_commits = 1
    /\ Len(ApplyCalls) = 2

(***************************************************************************)
(* C20.  Original statement: a run in which no conflict is ever reported   *)
(* ends with succeeded = n, skipped = failed = 0 and the apply calls being *)
(* the queue in queue order.                                               *)
(***************************************************************************)
C20_NoConflictAllSucceed ==
    (/\ stopped = "completed"
     /\ ~dry_run
     /\ \A i \in 1..Len(calls) : calls[i].result \notin {"conflict", "refused"}
     /\ \A k \in 1..Len(outcomes) : outcomes[k] \notin {"continue", "skip"})
        => /\ successful_picks = Len(commits)
           /\ skipped_commits = 0
           /\ failed_commits = 0
           /\ [i \in 1..Len(ApplyCalls) |-> ApplyCalls[i].commit] = commits

(* C20 as amended: outside dry-run mode, a run that reaches the end of    *)
(* the loop and in which every apply reported clean success ends with     *)
(* succeeded = n = total, skipped = failed = 0, and its mutations are     *)
(* exactly the applies of the queue in queue order.                       *)
C20_AllAppliedAllSucceed ==
    (/\ stopped = "completed"
     /\ ~dry_run
     /\ \A i \in 1..Len(ApplyCalls) : ApplyCalls[i].result = "applied")
        => /\ successful_picks = Len(commits)
           /\ total_commits = Len(commits)
           /\ skipped_commits = 0
           /\ failed_commits = 0
           /\ calls = [i \in 1..Len(commits) |->
                        [kind |-> "apply", at |-> i, commit |-> commits[i],
                         result |-> "applied"]]

(* A completed run of at least two commits, all applied cleanly. *)
C20_Witness ==
    /\ stopped = "completed"
    /\ ~dry_run
    /\ Len(commits) >= 2
    /\ Len(calls) = Len(commits)
    /\ \A i \in 1..Len(calls) : calls[i].result = "applied"
    /\ successful_picks = Len(commits)

(* The scenario of C21 has run to the end of the loop: three commits, the *)
(* first applied cleanly, the second conflicted and the human answered    *)
(* 'y' at the mediator, the third failed outright with no operation open  *)
(* and nothing unmerged.                                                   *)
C21_Scenario ==
    /\ stopped = "completed"
    /\ Len(commits) = 3
    /\ Len(ApplyCalls) = 3
    /\ ApplyCalls[1].result = "applied"
    /\ ApplyCalls[2].result = "conflict"
    /\ ApplyCalls[3].result = "error"
    /\ Len(outcomes) >= 2
    /\ outcomes[2] = "continue"

(***************************************************************************)
(* C21.  For the queue [c1, c2, c3] where c1 applies cleanly, c2 conflicts *)
(* and the human chooses 'continue', and c3 fails with neither a conflict  *)
(* nor an open operation, the run ends with succeeded = 2, failed = 1,     *)
(* skipped = 0 and total = 3, and the summary prints those numbers.        *)
(***************************************************************************)
C21_ScenarioLedger ==
    C21_Scenario
        => /\ successful_picks = 2
           /\ failed_commits = 1
           /\ skipped_commits = 0
           /\ total_commits = 3
           /\ outcomes = <<"succeeded", "continue", "failed">>
           /\ summary = PrintSummary(3, 2, 0, 1)

(* The scenario ended, and its only mutations were the three applies. *)
C21_Witness ==
    /\ C21_Scenario
    /\ Len(calls) = 3
    /\ exit_code = 0

(* Position in the commits file of the commit that --start-from names. *)
StartPosition ==
    CHOOSE k \in 1..Len(file_hashes) : file_hashes[k] = start_from

(***************************************************************************)
(* C22.  When the start offset names a commit of the file, the queue is    *)
(* that commit and the ones after it, total counts only those, the applies *)
(* are issued for them in file order, and no commit listed before the      *)
(* start offset is ever the subject of a mutation.                         *)
(***************************************************************************)
C22_StartOffsetCutsQueue ==
    (/\ idx >= 1
     /\ \E k \in 1..Len(file_hashes) : file_hashes[k] = start_from)
        => /\ commits = [i \in 1..(Len(file_hashes) - StartPosition + 1)
                            |-> file_hashes[StartPosition + i - 1]]
           /\ total_commits = Len(file_hashes) - StartPosition + 1
           /\ \A i \in 1..Len(ApplyCalls) :
                 ApplyCalls[i].commit = file_hashes[StartPosition + i - 1]
           /\ \A i \in 1..Len(calls) : \A j \in 1..(StartPosition - 1) :
                 calls[i].commit # file_hashes[j]

(* A run over [c1, c2, c3] started from c2 has ended after applying c2    *)
(* and c3.                                                                 *)
C22_Witness ==
    /\ stopped = "completed"
    /\ file_hashes = <<1, 2, 3>>
    /\ start_from = 2
    /\ Len(ApplyCalls) = 2
    /\ ApplyCalls[1].commit = 2
    /\ ApplyCalls[2].commit = 3
    /\ total_commits = 2

(***************************************************************************)
(* C23.  Every summary that is printed carries the counters as they stand  *)
(* and exactly one of three verdicts: complete success iff succeeded =     *)
(* total, partial iff 0 < succeeded < total, total failure iff succeeded = *)
(* 0; printing it changes no counter, issues no mutation and leaves the    *)
(* repository alone.                                                       *)
(***************************************************************************)
C23_SummaryClassifies ==
    /\ [](summary.printed
            => /\ summary = CountersNow
               /\ summary.verdict \in {"all", "partial", "none"}
               /\ (summary.verdict = "all"
                     <=> summary.successful = summary.total)
               /\ (summary.verdict = "partial"
                     <=> (/\ 0 < summary.successful
                          /\ summary.successful < summary.total))
               /\ (summary.verdict = "none" <=> summary.successful = 0))
    /\ [][summary' # summary
            => /\ summary'.printed
               /\ UNCHANGED <<repo, ledger, calls, outcomes, commits>>]_vars

(* A summary with the verdict 'partial' was printed for a run in which    *)
(* one commit was skipped.                                                 *)
C23_Witness ==
    /\ summary.printed
    /\ summary.verdict = "partial"
    /\ summary.skipped = 1
    /\ summary.total = 3

(***************************************************************************)
(* The run under a human who answers.  The program itself never waits      *)
(* except at input(); the human is assumed to give, at every prompt,       *)
(* eventually an answer that ends the prompt loop.                         *)
(***************************************************************************)

(* An answer that ends the prompt loop of handle_ongoing_operation. *)
HandlerAnswered ==
    \E c \in {"y", "q"} : HandlerInput(c) /\ pc' # "handler"

(* An answer that ends the prompt loop of wait_for_user_confirmation. *)
MediatorAnswered ==
    \E c \in {"y", "s", "q"} : MediatorInput(c)

FairSpec ==
    /\ Spec
    /\ WF_vars(Main)
    /\ WF_vars(Parse)
    /\ WF_vars(Loop)
    /\ WF_vars(CherryPickCommit)
    /\ WF_vars(HandlerAnswered)
    /\ WF_vars(MediatorAnswered)

(* The process ends. *)
Terminates == <>(pc = "exit")

(***************************************************************************)
(* C24.  With a human who eventually gives a terminating answer at every   *)
(* prompt, every run reaches a terminal state in which every queued commit *)
(* has a recorded outcome or the run was stopped by abandon or quit (or    *)
(* was never started, or was interrupted at a prompt); and the prompt loop *)
(* of the recovery handler is left only by 'proceed' with no unmerged file *)
(* or by abandon (or by an interrupt).                                     *)
(***************************************************************************)
C24_EndsRecordedOrStopped ==
    /\ <>(pc = "exit")
    /\ [](pc = "exit"
            => \/ Len(outcomes) = Len(commits)
               \/ stopped \in {"abandon", "quit", "interrupt", "fatal"})
    /\ [][(pc = "handler" /\ pc' # "handler")
            => \/ /\ choice' = "y"
                  /\ ~HasConflicts(GetGitStatus(dry_run, tree))
                  /\ pc' \in {"parse", "pick"}
               \/ stopped' \in {"abandon", "interrupt"}]_vars

(***************************************************************************)
(* The helpers on their own.  Each of the specifications below starts one  *)
(* helper of CherryPicker on inputs drawn from a bounded set and applies   *)
(* it; the run itself is not started.                                      *)
(***************************************************************************)

(* The variables of the run. *)
run_state == <<file_ok, file_hashes, start_from, repo, commits, idx, ledger,
               pc, where, info, choice, calls, outcomes, summary, exit_code,
               stopped>>

(* The run has not begun. *)
RunIdle ==
    /\ file_ok = FALSE
    /\ file_hashes = << >>
    /\ start_from = NoStart
    /\ op = NoOperation
    /\ tree = CleanTree
    /\ cp_head = << >>
    /\ commits = << >>
    /\ idx = 0
    /\ total_commits = 0
    /\ successful_picks = 0
    /\ skipped_commits = 0
    /\ failed_commits = 0
    /\ pc = "main"
    /\ where = "startup"
    /\ info = NoInfo
    /\ choice = ""
    /\ calls = << >>
    /\ outcomes = << >>
    /\ summary = NoSummary
    /\ exit_code = -1
    /\ stopped = "running"

(***************************************************************************)
(* is_git_operation_in_progress over the marker files of the git dir.      *)
(***************************************************************************)

(* Most queries a behaviour makes. *)
MaxQueries == 2

(* The paths is_git_operation_in_progress looks for under the git dir. *)
MarkerFiles == {"CHERRY_PICK_HEAD", "rebase-merge/interactive", "MERGE_HEAD",
                "REVERT_HEAD", "rebase-apply"}

(* The return value `False, ""`. *)
NoOperationAnswer == [in_progress |-> FALSE, operation |-> NoOperation]

(* is_git_operation_in_progress: `False, ""` when `git rev-parse           *)
(* --git-dir` fails; otherwise the first marker found, in the order of the *)
(* dictionary, then rebase-apply.                                          *)
GitOperationInProgress(git_dir_ok, present) ==
    IF ~git_dir_ok THEN NoOperationAnswer
    ELSE IF "CHERRY_PICK_HEAD" \in present
         THEN [in_progress |-> TRUE, operation |-> "cherry-pick"]
    ELSE IF "rebase-merge/interactive" \in present
         THEN [in_progress |-> TRUE, operation |-> "rebase"]
    ELSE IF "MERGE_HEAD" \in present
         THEN [in_progress |-> TRUE, operation |-> "merge"]
    ELSE IF "REVERT_HEAD" \in present
         THEN [in_progress |-> TRUE, operation |-> "revert"]
    ELSE IF "rebase-apply" \in present
         THEN [in_progress |-> TRUE, operation |-> "rebase"]
    ELSE NoOperationAnswer

QueryInit ==
    /\ RunIdle
    /\ valid_repo \in BOOLEAN
    /\ dry_run \in BOOLEAN
    /\ markers \in SUBSET MarkerFiles
    /\ changed = FALSE
    /\ answers = << >>
    /\ status_text = << >>
    /\ seen = NotAsked
    /\ content = << >>
    /\ parsed = NotParsed
    /\ SourceIdle

Query_RemovesMarker ==
    /\ Len(answers) < MaxQueries
    /\ answers' = Append(answers,
                    [ok     |-> valid_repo,
                     result |-> GitOperationInProgress(valid_repo, markers)])
    /\ changed' = FALSE
    /\ markers' = markers \ {"CHERRY_PICK_HEAD"}
    /\ UNCHANGED <<valid_repo, dry_run, run_state,
                   status_text, seen, content, parsed, source>>

(* One call of is_git_operation_in_progress.  It runs `git rev-parse` and *)
(* Path.exists only, whatever dry_run is.                                  *)
Query ==
    /\ Len(answers) < MaxQueries
    /\ answers' = Append(answers,
                    [ok     |-> valid_repo,
                     result |-> GitOperationInProgress(valid_repo, markers)])
    /\ changed' = FALSE
    /\ UNCHANGED <<markers, valid_repo, dry_run, run_state,
                   status_text, seen, content, parsed, source>>

(* git or the human creates or removes a marker file between two queries. *)
MarkerChange ==
    /\ \E m \in MarkerFiles :
          markers' = IF m \in markers THEN markers \ {m}
                                      ELSE markers \cup {m}
    /\ changed' = TRUE
    /\ UNCHANGED <<valid_repo, dry_run, run_state, answers,
                   status_text, seen, content, parsed, source>>

(* The git directory is lost or restored between two queries. *)
GitDirChange ==
    /\ valid_repo' = ~valid_repo
    /\ changed' = TRUE
    /\ UNCHANGED <<markers, dry_run, run_state, answers,
                   status_text, seen, content, parsed, source>>

QueryNext ==
    \/ Query
    \/ MarkerChange
    \/ GitDirChange

QuerySpec == QueryInit /\ [][QueryNext]_vars

(***************************************************************************)
(* C25.  Original statement: the query for the operation in progress fails *)
(* only when the directory is not a valid repository, and a failed query   *)
(* is never answered with 'no operation in progress'.                      *)
(***************************************************************************)
C25_FailedQueryIsNotNoOperation ==
    \A i \in 1..Len(answers) :
       ~answers[i].ok => answers[i].result # NoOperationAnswer

(***************************************************************************)
(* C29.  The query is read-only and idempotent: it changes neither the     *)
(* marker files, the git directory, the repository nor the ledger, and a   *)
(* query that follows another with no change in between returns the same   *)
(* answer.                                                                 *)
(***************************************************************************)
C29_QueryReadOnlyIdempotent ==
    [][Len(answers') > Len(answers)
         => /\ UNCHANGED <<markers, valid_repo, repo, ledger, calls>>
            /\ (Len(answers) >= 1 /\ ~changed)
                  => answers'[Len(answers')] = answers[Len(answers)]]_vars

(* Two queries in a row, nothing changed in between, both answered        *)
(* 'rebase' from the rebase-apply directory.                               *)
C29_Witness ==
    /\ Len(answers) = 2
    /\ ~changed
    /\ markers = {"rebase-apply"}
    /\ answers[1] = answers[2]
    /\ answers[2].result = [in_progress |-> TRUE, operation |-> "rebase"]

(***************************************************************************)
(* has_conflicts and show_conflict_status over the text of                 *)
(* `git status --porcelain`.  A line is a sequence of characters: the two  *)
(* status characters, a space and the path.                                *)
(***************************************************************************)

(* Most lines of a status output. *)
MaxStatusLines == 2

(* The XY codes git prints for unmerged paths. *)
UnmergedCodes == {<<"D", "D">>, <<"A", "U">>, <<"U", "D">>, <<"U", "A">>,
                  <<"D", "U">>, <<"A", "A">>, <<"U", "U">>}

(* Some of the XY codes git prints for other paths. *)
MergedCodes == {<<" ", "M">>, <<"M", " ">>, <<"A", " ">>, <<" ", "D">>,
                <<"?", "?">>}

(* Paths: an ordinary one and one whose name is the letter U. *)
FileNames == {<<"f">>, <<"U">>}

StatusLines ==
    {code \o <<" ">> \o name :
        code \in UnmergedCodes \cup MergedCodes, name \in FileNames}

StatusTexts == UNION {[1..n -> StatusLines] : n \in 0..MaxStatusLines}

RECURSIVE LStrip(_)
(* str.lstrip on one line. *)
LStrip(line) ==
    IF line # << >> /\ Head(line) = " " THEN LStrip(Tail(line)) ELSE line

RECURSIVE RStrip(_)
(* str.rstrip on one line. *)
RStrip(line) ==
    IF line # << >> /\ line[Len(line)] = " "
    THEN RStrip(SubSeq(line, 1, Len(line) - 1))
    ELSE line

(* result.stdout.strip().split('\n') of get_git_status and its callers:   *)
(* white space goes from the front of the first line and from the end of  *)
(* the last.                                                               *)
StripText(text) ==
    [i \in 1..Len(text) |->
        LET front == IF i = 1 THEN LStrip(text[i]) ELSE text[i]
        IN  IF i = Len(text) THEN RStrip(front) ELSE front]

(* The test of show_conflict_status on one status line. *)
IsListedLine(line) ==
    /\ Len(line) > 0
    /\ \/ \E k \in 1..2 : k <= Len(line) /\ line[k] = "U"
       \/ (Len(line) >= 2 /\ line[1] = "D" /\ line[2] = "D")
       \/ (Len(line) >= 2 /\ line[1] = "A" /\ line[2] = "A")

RECURSIVE ConflictedFiles(_)
(* The list conflicted_files of show_conflict_status: line[3:] of every   *)
(* listed line.                                                            *)
ConflictedFiles(lines) ==
    IF lines = << >> THEN << >>
    ELSE LET line == Head(lines)
             rest == ConflictedFiles(Tail(lines))
         IN  IF IsListedLine(line)
             THEN <<SubSeq(line, 4, Len(line))>> \o rest
             ELSE rest

StatusInit ==
    /\ RunIdle
    /\ valid_repo = TRUE
    /\ dry_run \in BOOLEAN
    /\ markers = {}
    /\ changed = FALSE
    /\ answers = << >>
    /\ status_text \in StatusTexts
    /\ seen = NotAsked
    /\ content = << >>
    /\ parsed = NotParsed
    /\ SourceIdle

(* has_conflicts() and show_conflict_status() called one after the other, *)
(* as handle_ongoing_operation and wait_for_user_confirmation do.          *)
AskStatus ==
    /\ ~seen.asked
    /\ LET lines == GetGitStatus(dry_run, StripText(status_text))
       IN  seen' = [asked            |-> TRUE,
                    has_conflicts    |-> HasConflicts(lines),
                    conflicted_files |-> ConflictedFiles(lines)]
    /\ UNCHANGED <<valid_repo, dry_run, run_state, markers, changed, answers,
                   status_text, content, parsed, source>>

StatusNext == AskStatus

StatusSpec == StatusInit /\ [][StatusNext]_vars

(* Some entry of the status output carries an unmerged code. *)
SomeEntryUnmerged ==
    \E i \in 1..Len(status_text) :
       <<status_text[i][1], status_text[i][2]>> \in UnmergedCodes

(***************************************************************************)
(* C26.  Original statement: has_conflicts() is true exactly when some     *)
(* status entry carries an unmerged code, and the list of conflicted files *)
(* shown to the human is non-empty exactly when has_conflicts() is true.    *)
(***************************************************************************)
C26_ConflictsIffUnmergedEntry ==
    seen.asked
        => /\ seen.has_conflicts <=> SomeEntryUnmerged
           /\ seen.conflicted_files # << >> <=> seen.has_conflicts

(***************************************************************************)
(* C27.  In dry-run mode no mutation is ever issued and the program never  *)
(* changes the repository (only the human does, at a prompt); a dry run    *)
(* that ends without abandon or interrupt ends with succeeded = total and  *)
(* skipped = failed = 0.                                                   *)
(***************************************************************************)
C27_DryRunIssuesNothing ==
    /\ [](dry_run => calls = << >>)
    /\ [][(dry_run /\ repo' # repo)
            => /\ AtPrompt
               /\ pc' = pc
               /\ UNCHANGED <<ledger, choice, calls, outcomes>>]_vars
    /\ []((dry_run /\ pc = "exit" /\ stopped \notin {"abandon", "interrupt"})
            => /\ successful_picks = total_commits
               /\ skipped_commits = 0
               /\ failed_commits = 0)

(* A dry run over three commits ran to its end in a repository that had   *)
(* an operation open with unmerged files all along.                        *)
C27_Witness ==
    /\ dry_run
    /\ stopped = "completed"
    /\ total_commits = 3
    /\ successful_picks = 3
    /\ calls = << >>
    /\ op = "merge"
    /\ HasConflicts(tree)

MaxFileLines == 3

(* Distinct commits a file mentions. *)
MaxHashes == 2

(* The {7,} of the regular expression ^([a-f0-9]{7,}). *)
MinHashLength == 7

(* Lengths of a leading hex run: one too short, the shortest accepted. *)
HexRuns == {MinHashLength - 1, MinHashLength}

Phrases == {"", "oldest first", "newest first"}

FileLines ==
    {[kind |-> "blank", id |-> 0, run |-> 0, says |-> ""],
     [kind |-> "detailed", id |-> 0, run |-> 0, says |-> ""]}
    \cup {[kind |-> k, id |-> 0, run |-> 0, says |-> p] :
             k \in {"comment", "word"}, p \in Phrases}
    \cup {[kind |-> "hex", id |-> h, run |-> r, says |-> ""] :
             h \in 1..MaxHashes, r \in HexRuns}

FileTexts == UNION {[1..n -> FileLines] : n \in 0..MaxFileLines}

(* re.match(r'^([a-f0-9]{7,})', line): the line begins with at least      *)
(* seven lowercase hex digits.                                             *)
HashMatch(line) == line.kind = "hex" /\ line.run >= MinHashLength

(* hash_match.group(1): the leading hex run. *)
MatchedHash(line) == [id |-> line.id, run |-> line.run]

RECURSIVE ParseLines(_, _, _)
(* The for loop of parse_commits_file over the remaining lines, with the  *)
(* flag in_oldest_first and the list commits as they stand.                *)
ParseLines(lines, in_oldest_first, acc) ==
    IF lines = << >> THEN acc
    ELSE LET line == Head(lines)
             rest == Tail(lines)
         IN  IF line.kind = "blank"
             THEN ParseLines(rest, in_oldest_first, acc)
             ELSE IF line.says = "oldest first"
             THEN ParseLines(rest, TRUE, acc)
             ELSE IF line.says = "newest first" \/ line.kind = "detailed"
             THEN ParseLines(rest, FALSE, acc)
             ELSE IF line.kind = "comment"
             THEN ParseLines(rest, in_oldest_first, acc)
             ELSE IF in_oldest_first
             THEN ParseLines(rest, in_oldest_first,
                             IF HashMatch(line)
                             THEN Append(acc, MatchedHash(line)) ELSE acc)
             ELSE IF acc = << >>
             THEN ParseLines(rest, in_oldest_first,
                             IF HashMatch(line)
                             THEN Append(acc, MatchedHash(line)) ELSE acc)
             ELSE ParseLines(rest, in_oldest_first, acc)

(* The values --start-from can take: none, or a run of hex digits that    *)
(* may be a listed hash, an abbreviation of one or neither.                *)
Offsets ==
    {NoOffset} \cup {[id |-> h, run |-> r] : h \in 1..MaxHashes, r \in HexRuns}

StartFromHash_MatchesPrefix(list, start) ==
    IF start = NoOffset THEN list
    ELSE IF \A i \in 1..Len(list) : list[i].id # start.id THEN list
    ELSE SubSeq(list,
                CHOOSE i \in 1..Len(list) :
                   /\ list[i].id = start.id
                   /\ \A j \in 1..(i - 1) : list[j].id # start.id,
                Len(list))

StartFromHash_FromLast(list, start) ==
    IF start = NoOffset THEN list
    ELSE IF \A i \in 1..Len(list) : list[i] # start THEN list
    ELSE SubSeq(list,
                CHOOSE i \in 1..Len(list) :
                   /\ list[i] = start
                   /\ \A j \in (i + 1)..Len(list) : list[j] # start,
                Len(list))

(* The tail of parse_commits_file on the hashes found: commits.index is   *)
(* the first position equal to the argument; ValueError leaves the list   *)
(* whole.                                                                  *)
StartFromHash(list, start) ==
    IF start = NoOffset THEN list
    ELSE IF IndexOf(list, start) = 0 THEN list
    ELSE SubSeq(list, IndexOf(list, start), Len(list))

ParseInit ==
    /\ RunIdle
    /\ valid_repo = TRUE
    /\ dry_run = FALSE
    /\ markers = {}
    /\ changed = FALSE
    /\ answers = << >>
    /\ status_text = << >>
    /\ seen = NotAsked
    /\ content \in FileTexts
    /\ parsed = NotParsed
    /\ offset \in Offsets
    /\ remote_only = << >>
    /\ remote_url = ""
    /\ details = << >>

(* parse_commits_file on a file that exists: the list found and the queue *)
(* cut from it at the start offset, or CherryPickError when no hash was    *)
(* found.                                                                  *)
ParseFile ==
    /\ ~parsed.done
    /\ LET found == ParseLines(content, FALSE, << >>)
       IN  parsed' = [done    |-> TRUE,
                      error   |-> found = << >>,
                      commits |-> found,
                      queue   |-> StartFromHash(found, offset)]
    /\ UNCHANGED <<valid_repo, dry_run, run_state, markers, changed, answers,
                   status_text, seen, content, source>>

ParseNext == ParseFile

ParseSpec == ParseInit /\ [][ParseNext]_vars

(* The file has a line that contains 'oldest first'. *)
HasOldestFirstHeader ==
    \E i \in 1..Len(content) : content[i].says = "oldest first"

RECURSIVE LeadingHashes(_)
(* The leading hash of every line that is not a comment, in file order. *)
LeadingHashes(lines) ==
    IF lines = << >> THEN << >>
    ELSE IF Head(lines).kind # "comment" /\ HashMatch(Head(lines))
         THEN <<MatchedHash(Head(lines))>> \o LeadingHashes(Tail(lines))
         ELSE LeadingHashes(Tail(lines))

(***************************************************************************)
(* C30.  Original statement: when the file has no 'oldest first' header,   *)
(* parse_commits_file returns the leading hash of every non-comment line,  *)
(* all of them, in file order.                                             *)
(***************************************************************************)
C30_FallbackCollectsEveryHash ==
    (parsed.done /\ ~HasOldestFirstHeader)
        => parsed.commits = LeadingHashes(content)

(* The positions of the list found that equal the start offset exactly. *)
OffsetPositions ==
    {i \in 1..Len(parsed.commits) : parsed.commits[i] = offset}

(***************************************************************************)
(* C32.  When parse_commits_file is given a start offset and finds a       *)
(* list, it returns and does not raise; an offset equal to no element of   *)
(* the list, an abbreviation of a listed hash included, leaves the whole   *)
(* list as the queue, so its length is the total; an offset that occurs    *)
(* more than once cuts the list at its first occurrence.                   *)
(***************************************************************************)
C32_UnmatchedOffsetKeepsQueue ==
    (parsed.done /\ ~parsed.error /\ offset # NoOffset)
        => IF OffsetPositions = {}
           THEN /\ parsed.queue = parsed.commits
                /\ Len(parsed.queue) = Len(parsed.commits)
           ELSE \E first \in OffsetPositions :
                   /\ \A i \in OffsetPositions : first <= i
                   /\ parsed.queue
                         = SubSeq(parsed.commits, first, Len(parsed.commits))

(* The offset abbreviates the second hash of a list of two, and both hashes *)
(* are in the queue.                                                       *)
C32_Witness ==
    /\ parsed.done
    /\ ~parsed.error
    /\ offset # NoOffset
    /\ offset.run < MinHashLength
    /\ Len(parsed.commits) = 2
    /\ parsed.commits[1].id # offset.id
    /\ parsed.commits[2].id = offset.id
    /\ parsed.queue = parsed.commits

(* The offset is listed twice and the queue starts at the first of them. *)
C32_RepeatedOffset ==
    /\ parsed.done
    /\ ~parsed.error
    /\ parsed.commits = <<offset, offset>>
    /\ parsed.queue = <<offset, offset>>

(***************************************************************************)
(* The file diff-remote-tag writes, read back by cherry-pick.  A pure      *)
(* function followed by a pure function, checked under a specification of  *)
(* their own: generate_output_file writes the list it is given, and        *)
(* parse_commits_file reads the file with no start offset.                 *)
(***************************************************************************)

(* Commits in the tag and not in HEAD. *)
MaxRemoteOnly == 2

(* The length of %H, a full SHA-1 name in hex. *)
FullHashLength == 40

(* A commit's empty subject: after strip() the last line of git show is   *)
(* 'Subject:', which starts with no 'Subject: ', so info has no such key.  *)
NoSubject == "KeyError"

(* What get_commit_info returns: the section phrase in the author's name  *)
(* and the one in the subject ('Unknown' has none), or no subject.         *)
CommitInfos ==
    [author : Phrases, subject : Phrases \cup {NoSubject}]

(* Output of git log --format=%H: full hashes, newest first. *)
RemoteOnlyLists ==
    UNION {[1..n -> [id : 1..MaxHashes, run : {FullHashLength}]] :
              n \in 1..MaxRemoteOnly}

BlankLine == [kind |-> "blank", id |-> 0, run |-> 0, says |-> ""]

(* A line that starts with '#'. *)
CommentLine(phrase) ==
    [kind |-> "comment", id |-> 0, run |-> 0, says |-> phrase]

(* A line that starts with dashes or with a capitalised label. *)
LabelLine(phrase) ==
    [kind |-> "word", id |-> 0, run |-> 0, says |-> phrase]

(* f"{commit}\n" *)
HashLine(commit) ==
    [kind |-> "hex", id |-> commit.id, run |-> commit.run, says |-> ""]

CommitLine_Bare(commit) == HashLine(commit)

(* f"Commit: {commit}\n" *)
CommitLine(commit) == LabelLine("")

OldestFirst_Same(list) == list

(* list(reversed(commits)) *)
OldestFirst(list) ==
    [i \in 1..Len(list) |-> list[Len(list) + 1 - i]]

(* The header: the tag is a ref name and holds no space, the date and the *)
(* two hashes are what they are, the URL is the user's.                    *)
HeaderLines(url) ==
    <<CommentLine(""), CommentLine(""), CommentLine(url), CommentLine(""),
      CommentLine(""), BlankLine>>

(* The list for cherry-picking, under its heading, then the heading of    *)
(* the details, which starts with '#'.                                     *)
CommitIdLines(oldest_first_commits) ==
    <<CommentLine("oldest first")>>
    \o [i \in 1..Len(oldest_first_commits)
           |-> HashLine(oldest_first_commits[i])]
    \o <<BlankLine, CommentLine("")>>

RECURSIVE DetailLines(_, _)
(* The loop over the commits: each block is written line by line, and a   *)
(* missing subject raises KeyError after the date line of its block.       *)
DetailLines(oldest_first_commits, infos) ==
    IF oldest_first_commits = << >> THEN << >>
    ELSE LET commit == Head(oldest_first_commits)
             commit_info == Head(infos)
             upto_date == <<LabelLine(""), CommitLine(commit),
                            LabelLine(commit_info.author), LabelLine("")>>
         IN  IF commit_info.subject = NoSubject
             THEN upto_date
             ELSE upto_date
                  \o <<LabelLine(commit_info.subject), BlankLine>>
                  \o DetailLines(Tail(oldest_first_commits), Tail(infos))

(* The lines of the file generate_output_file leaves on disk. *)
GeneratedLines(commits_given, url, infos) ==
    LET oldest_first_commits == OldestFirst(commits_given)
    IN  HeaderLines(url)
        \o CommitIdLines(oldest_first_commits)
        \o DetailLines(oldest_first_commits, infos)

RoundTripInit ==
    /\ RunIdle
    /\ valid_repo = TRUE
    /\ dry_run = FALSE
    /\ markers = {}
    /\ changed = FALSE
    /\ answers = << >>
    /\ status_text = << >>
    /\ seen = NotAsked
    /\ content = << >>
    /\ parsed = NotParsed
    /\ offset = NoOffset
    /\ remote_only \in RemoteOnlyLists
    /\ remote_url \in Phrases
    /\ details \in [1..Len(remote_only) -> CommitInfos]

(* generate_output_file(commits, output_file): open(output_file, 'w')     *)
(* replaces what the file held.                                            *)
GenerateOutputFile ==
    /\ remote_only # << >>
    /\ content' = GeneratedLines(remote_only, remote_url, details)
    /\ UNCHANGED <<valid_repo, dry_run, run_state, markers, changed, answers,
                   status_text, seen, parsed, source>>

(* cherry-pick --file on the file that was written. *)
ReadBack ==
    /\ content # << >>
    /\ ParseFile

RoundTripNext == GenerateOutputFile \/ ReadBack

RoundTripSpec == RoundTripInit /\ [][RoundTripNext]_vars

(***************************************************************************)
(* C31.  The file generate_output_file writes for a newest-first list L of *)
(* full hashes, read back by parse_commits_file with no start offset,      *)
(* gives a list and no error, and the list is L reversed: as long as L,    *)
(* with the hash at position i of the one at position Len(L) + 1 - i of    *)
(* the other, whatever the header and the detail blocks say.               *)
(***************************************************************************)
C31_ReadBackIsReversed ==
    (parsed.done /\ content # << >>)
        => /\ ~parsed.error
           /\ Len(parsed.queue) = Len(remote_only)
           /\ \A i \in 1..Len(remote_only) :
                 parsed.queue[i] = remote_only[Len(remote_only) + 1 - i]

(* Two different commits came back in the other order from a file whose   *)
(* first detail block has 'newest first' in its subject.                   *)
C31_Witness ==
    /\ parsed.done
    /\ ~parsed.error
    /\ Len(remote_only) = 2
    /\ remote_only[1] # remote_only[2]
    /\ parsed.queue = <<remote_only[2], remote_only[1]>>
    /\ details[1].subject = "newest first"
    /\ Len(content) > Len(HeaderLines(remote_url)) + 2 * Len(remote_only)

====
